---- MODULE Spec2Model ----
(***************************************************************************)
(* The validate-a2a GitHub action: run() installs capiscio-cli, runs       *)
(* `capiscio validate <agent-card> --json`, parses its stdout and turns    *)
(* the parsed result into outputs, log lines and the job outcome.          *)
(*                                                                         *)
(* The repository holds two variants of run():                             *)
(*   "index"  : src/src/index.ts      (reads `success`, `total`)           *)
(*   "legacy" : src/unnamed/part_000  (reads `valid`, `score`)             *)
(* A run is one of them; `variant` says which.                             *)
(*                                                                         *)
(* Text is modelled as a tuple of string pieces whose concatenation is the *)
(* string the code builds (a template literal's fixed parts and its        *)
(* interpolated values are separate pieces).  The emoji that prefix some   *)
(* log lines are left out of the pieces.                                   *)
(***************************************************************************)
EXTENDS Integers, Sequences, FiniteSets, TLC

VARIABLES
    variant,         \* which run() this is
    failOnWarnings,  \* core.getBooleanInput('fail-on-warnings')
    options,         \* the inputs strict, test-live, skip-signature and timeout
    args,            \* the arguments the validator was started with
    pc,              \* where run() is: "init", "installing", "validating", "done"
    installs,        \* number of `npm install` subprocesses started
    validations,     \* number of `capiscio` subprocesses started
    installState,    \* "idle", "running", "ok", "failed"
    validatorState,  \* "idle", "running", "exited", "failed"
    caught,          \* message of the error the outer catch handled, or NoMsg
    exitCode,        \* exit code of the validator (Undefined until it exits)
    output,          \* accumulated stdout of the validator
    errorOutput,     \* accumulated stderr of the validator
    outputs,         \* core.setOutput: function from output name to string
    log,             \* core.info/debug/warning/error lines, in order
    failed,          \* core.setFailed messages, in order
    escaped          \* an exception left run()

vars == <<variant, failOnWarnings, options, args, pc, installs, validations, installState,
          validatorState, caught, exitCode, output, errorOutput, outputs,
          log, failed, escaped>>

(***************************************************************************)
(* Bounds of the model.                                                    *)
(***************************************************************************)
\* longest errors / warnings array the validator reports
MaxFindings == 1

(***************************************************************************)
(* JavaScript values.                                                      *)
(***************************************************************************)
\* `undefined` for a number-valued property
Undefined == -1

\* `undefined` for a string-valued property; a template literal renders it so
UndefinedString == "undefined"

\* no message
NoMsg == <<>>

\* a boolean-valued property: missing, true or false
Tri == {"absent", "true", "false"}

\* truthiness of a boolean-valued property (undefined is falsy)
Truthy(t) == t = "true"

\* Number.prototype.toString
NumToString(n) == ToString(n)

\* a number-valued property interpolated into a template literal
Interpolate(n) == IF n = Undefined THEN "undefined" ELSE NumToString(n)

\* Boolean.prototype.toString
BoolToString(b) == IF b THEN "true" ELSE "false"

(***************************************************************************)
(* What the validator can print: the inputs of a run.                      *)
(***************************************************************************)
\* an entry of errors / warnings: an object with a message, or a bare string
\* (for a bare string, `message` holds the string itself)
\* `value` is the entry converted to a string, `message` its message property
\* (UndefinedString when it has none, as a string has none)
FindingValues ==
    { [kind |-> "object", message |-> "missing field X", value |-> "[object Object]"],
      [kind |-> "string", message |-> UndefinedString, value |-> "deprecated field"] }

\* the arrays of at most n entries
RECURSIVE SeqsUpTo(_)
SeqsUpTo(n) ==
    IF n = 0 THEN { <<>> }
    ELSE LET shorter == SeqsUpTo(n - 1)
         IN  shorter \cup { Append(s, f) : s \in shorter, f \in FindingValues }

\* the errors / warnings property: missing, an array, or a single finding
\* object that is not wrapped in an array (kept in `items` as its one entry)
FindingFields ==
    { [kind |-> "absent", items |-> <<>>] }
    \cup { [kind |-> "array", items |-> s] : s \in SeqsUpTo(MaxFindings) }
    \cup { [kind |-> "object", items |-> <<[kind |-> "object", message |-> "missing field X", value |-> "[object Object]"]>>] }

\* a score dimension; `score` and `total` are Undefined when the key is missing
NoDimension == [present |-> FALSE, score |-> Undefined, total |-> Undefined, rating |-> ""]

\* the dimension with value v under the keys of schema `keys`; when both keys
\* are there they hold different numbers, the newer key (`total`) holds v
Dimension(keys, v, rating) ==
    [present |-> TRUE,
     score   |-> CASE keys = "score" -> v [] keys = "total" -> Undefined [] OTHER -> v - 1,
     total   |-> IF keys = "score" THEN Undefined ELSE v,
     rating  |-> rating]

NoScoring ==
    [present |-> FALSE, compliance |-> NoDimension, trust |-> NoDimension,
     availability |-> NoDimension, productionReady |-> "absent"]

\* scoringResult: missing, or one validator version's keys in every dimension;
\* compliance and trust are always reported, availability is null when live
\* testing was not asked for
ScoringValues ==
    { NoScoring }
    \cup { [present |-> TRUE,
            compliance |-> Dimension(keys, 90, "A"),
            trust |-> Dimension(keys, 85, "B"),
            availability |-> IF a THEN Dimension(keys, 70, "C") ELSE NoDimension,
            productionReady |-> p] :
           keys \in {"score", "total", "both"}, a \in BOOLEAN, p \in Tri }

\* the documents JSON.parse accepts
Payloads ==
    [success : Tri, valid : Tri, errors : FindingFields, warnings : FindingFields,
     scoringResult : ScoringValues]

NoPayload ==
    [success |-> "absent", valid |-> "absent",
     errors |-> [kind |-> "absent", items |-> <<>>],
     warnings |-> [kind |-> "absent", items |-> <<>>],
     scoringResult |-> NoScoring]

\* stdout: its text and, when the text is a JSON document, the document
Stdouts ==
    { [text |-> t, parses |-> FALSE, json |-> NoPayload] : t \in {"", "not json"} }
    \cup { [text |-> "{json}", parses |-> TRUE, json |-> p] : p \in Payloads }

ExitCodes == {0, 1}

(***************************************************************************)
(* The effects of run(): outputs published, lines logged, setFailed calls, *)
(* and the exception thrown inside the try block, if any.  After a throw   *)
(* the statements that follow do nothing.                                  *)
(***************************************************************************)
OutputNames ==
    {"result", "error-count", "warning-count", "compliance-score", "trust-score",
     "availability-score", "production-ready"}

\* the value of an output that core.setOutput was never called for
Unset == "(unset)"

NoOutputs == [n \in OutputNames |-> Unset]

\* `thrown`: the error in flight; `caught`: the error the outer catch handled
NoEffects ==
    [outputs |-> NoOutputs, log |-> <<>>, failed |-> <<>>, thrown |-> NoMsg,
     caught |-> NoMsg]

Line(level, text) == [level |-> level, text |-> text]

\* core.setOutput(name, value)
SetOutput(r, name, value) ==
    IF r.thrown # NoMsg THEN r ELSE [r EXCEPT !.outputs[name] = value]

\* core.info / core.debug / core.warning / core.error
Write(r, level, text) ==
    IF r.thrown # NoMsg THEN r ELSE [r EXCEPT !.log = Append(@, Line(level, text))]

\* core.setFailed(message)
SetFailed(r, message) ==
    IF r.thrown # NoMsg THEN r ELSE [r EXCEPT !.failed = Append(@, message)]

\* a statement throws an Error with this message
Throw(r, message) ==
    IF r.thrown # NoMsg THEN r ELSE [r EXCEPT !.thrown = message]

\* the message of the TypeError V8 raises for `undefined.<property>`
TypeErrorReading(property) ==
    <<"Cannot read properties of undefined (reading '", property, "')">>

\* the outer catch of run(): every error thrown in the try block ends here
\* (an Error instance: core.setFailed(error.message))
CatchAll(r) ==
    IF r.thrown = NoMsg THEN r
    ELSE [r EXCEPT !.failed = Append(@, r.thrown), !.caught = r.thrown, !.thrown = NoMsg]

\* `.length` of the errors / warnings property: only an array has one
JsLength(field) == IF field.kind = "array" THEN Len(field.items) ELSE Undefined

\* `n || 0`
OrZero(n) == IF n = Undefined THEN 0 ELSE n

\* `x?.toString() || fallback` for a number x (no number renders as '')
ToStringOr(n, fallback) == IF n = Undefined THEN fallback ELSE NumToString(n)

(***************************************************************************)
(* src/src/index.ts: run() after the validator has exited.                 *)
(***************************************************************************)
\* lines 59-65: the raw output, at debug level
IndexDebug(r, out, errOut) ==
    LET a == IF out.text # "" THEN Write(r, "debug", <<"CLI Output: ", out.text>>) ELSE r
    IN  IF errOut # "" THEN Write(a, "debug", <<"CLI Error Output: ", errOut>>) ELSE a

\* the parse failure that also publishes a result
IndexParseFailure_PublishesResult(r, out, errOut, code) ==
    LET a == Write(r, "error", <<"Failed to parse validation output as JSON">>)
        b == Write(a, "error", <<"Raw output: ", out.text>>)
        c == Write(b, "error", <<"Error output: ", errOut>>)
        d == SetOutput(c, "result", "failed")
    IN  SetFailed(d, <<"Validation failed with exit code ", NumToString(code)>>)

\* lines 71-77: JSON.parse threw
IndexParseFailure(r, out, errOut, code) ==
    LET a == Write(r, "error", <<"Failed to parse validation output as JSON">>)
        b == Write(a, "error", <<"Raw output: ", out.text>>)
        c == Write(b, "error", <<"Error output: ", errOut>>)
    IN  SetFailed(c, <<"Validation failed with exit code ", NumToString(code)>>)

\* lines 80-83
IndexBasicOutputs(r, result) ==
    LET a == SetOutput(r, "result", IF Truthy(result.success) THEN "passed" ELSE "failed")
        b == SetOutput(a, "error-count", NumToString(OrZero(JsLength(result.errors))))
    IN  SetOutput(b, "warning-count", NumToString(OrZero(JsLength(result.warnings))))

\* lines 98-102 and 103-107: the line of a dimension that is there
IndexScoreLine(r, name, dim) ==
    IF dim.present
    THEN Write(r, "info", <<"  ", name, ": ", Interpolate(dim.total), "/100 (", dim.rating, ")">>)
    ELSE r

\* lines 86-121
IndexScoring(r, result) ==
    LET sr == result.scoringResult
        a == SetOutput(r, "compliance-score", ToStringOr(sr.compliance.total, "0"))
        b == SetOutput(a, "trust-score", ToStringOr(sr.trust.total, "0"))
        c == SetOutput(b, "availability-score", ToStringOr(sr.availability.total, "not-tested"))
        d == SetOutput(c, "production-ready", BoolToString(Truthy(sr.productionReady)))
        e == Write(Write(d, "info", <<"">>), "info", <<"Quality Scores:">>)
        f == IndexScoreLine(e, "Compliance", sr.compliance)
        g == IndexScoreLine(f, "Trust", sr.trust)
        \* `availability.total !== null` holds of a missing total, which is undefined
        h == IndexScoreLine(g, "Availability", sr.availability)
        i == Write(h, "info", <<"">>)
        j == Write(i, "info", <<"Production Ready: ",
                                IF Truthy(sr.productionReady) THEN "YES" ELSE "NO">>)
        n1 == SetOutput(r, "compliance-score", "N/A")
        n2 == SetOutput(n1, "trust-score", "N/A")
        n3 == SetOutput(n2, "availability-score", "N/A")
    IN  IF sr.present THEN j ELSE SetOutput(n3, "production-ready", "false")

\* `err.message || err` interpolated into the line
IndexFindingText(f) == IF f.message = UndefinedString THEN f.value ELSE f.message

\* lines 123-130 (errors, level "error") and 132-139 (warnings, level "warning")
IndexFindings(r, field, level, noun) ==
    IF field.kind # "absent" /\ JsLength(field) # Undefined /\ JsLength(field) > 0
    THEN LET a == Write(r, "info", <<"">>)
             b == Write(a, level, <<"Found ", NumToString(JsLength(field)), " ", noun, "(s):">>)
         IN  IF b.thrown # NoMsg THEN b
             ELSE [b EXCEPT !.log = @ \o [k \in 1..Len(field.items) |->
                                          Line(level, <<"  - ", IndexFindingText(field.items[k])>>)]]
    ELSE r

\* lines 141-150
IndexDecide(r, result, fow) ==
    IF ~Truthy(result.success)
    THEN SetFailed(r, <<"Validation failed with ",
                        NumToString(OrZero(JsLength(result.errors))), " error(s)">>)
    ELSE IF fow /\ result.warnings.kind # "absent"
             /\ JsLength(result.warnings) # Undefined /\ JsLength(result.warnings) > 0
         THEN SetFailed(r, <<"Validation passed but found ",
                             NumToString(JsLength(result.warnings)),
                             " warning(s) (", "fail-on-warnings", " enabled)">>)
         ELSE Write(Write(r, "info", <<"">>), "info", <<"Validation passed!">>)

\* run() that takes a nonzero exit code for a failed validation
IndexInterpret_ExitCodeFails(r, out, errOut, code, fow) ==
    LET a == IndexDebug(r, out, errOut)
        result == out.json
        b == IndexBasicOutputs(a, result)
        c == IndexScoring(b, result)
        d == IndexFindings(c, result.errors, "error", "error")
        e == IndexFindings(d, result.warnings, "warning", "warning")
    IN  CatchAll(IF ~out.parses THEN IndexParseFailure(a, out, errOut, code)
                 ELSE IF code # 0
                      THEN SetFailed(e, <<"Validation failed with exit code ", NumToString(code)>>)
                      ELSE IndexDecide(e, result, fow))

\* lines 59-158: from the validator's exit to the end of run()
IndexInterpret(r, out, errOut, code, fow) ==
    LET a == IndexDebug(r, out, errOut)
        result == out.json
        b == IndexBasicOutputs(a, result)
        c == IndexScoring(b, result)
        d == IndexFindings(c, result.errors, "error", "error")
        e == IndexFindings(d, result.warnings, "warning", "warning")
    IN  CatchAll(IF out.parses THEN IndexDecide(e, result, fow)
                 ELSE IndexParseFailure(a, out, errOut, code))

(***************************************************************************)
(* src/unnamed/part_000: run() after the validator has exited.             *)
(***************************************************************************)
\* core.setOutput(name, holder.property.toString()): a TypeError when the
\* holder or the property is undefined
OutputToString(r, name, holderPresent, property, n) ==
    IF ~holderPresent THEN Throw(r, TypeErrorReading(property))
    ELSE IF n = Undefined THEN Throw(r, TypeErrorReading("toString"))
    ELSE SetOutput(r, name, NumToString(n))

\* lines 63-65: JSON.parse threw
LegacyParseFailure(r, out) ==
    SetFailed(r, <<"Failed to parse validation output", ": ", out.text>>)

\* lines 68-71
LegacyBasicOutputs(r, result) ==
    LET a == SetOutput(r, "result", IF Truthy(result.valid) THEN "passed" ELSE "failed")
        b == OutputToString(a, "error-count", result.errors.kind # "absent", "length",
                            JsLength(result.errors))
    IN  OutputToString(b, "warning-count", result.warnings.kind # "absent", "length",
                       JsLength(result.warnings))

\* lines 87, 88, 90
LegacyScoreLine(r, name, dim) ==
    Write(r, "info", <<"  ", name, ": ", Interpolate(dim.score), "/100 (", dim.rating, ")">>)

\* lines 73-94
LegacyScoring(r, result) ==
    LET sr == result.scoringResult
        a == OutputToString(r, "compliance-score", sr.compliance.present, "score",
                            sr.compliance.score)
        b == OutputToString(a, "trust-score", sr.trust.present, "score", sr.trust.score)
        c == IF sr.availability.present
             THEN OutputToString(b, "availability-score", TRUE, "score", sr.availability.score)
             ELSE SetOutput(b, "availability-score", "not-tested")
        d == IF sr.productionReady = "absent"
             THEN Throw(c, TypeErrorReading("toString"))
             ELSE SetOutput(c, "production-ready", BoolToString(Truthy(sr.productionReady)))
        e == Write(Write(d, "info", <<"">>), "info", <<"Quality Scores:">>)
        f == LegacyScoreLine(e, "Compliance", sr.compliance)
        g == LegacyScoreLine(f, "Trust", sr.trust)
        h == IF sr.availability.present THEN LegacyScoreLine(g, "Availability", sr.availability)
             ELSE g
        i == Write(h, "info", <<"">>)
    IN  IF sr.present
        THEN Write(i, "info", <<"Production Ready: ",
                                IF Truthy(sr.productionReady) THEN "YES" ELSE "NO">>)
        ELSE r

\* `err.message` interpolated into the line
LegacyFindingText(f) == f.message

\* lines 96-103 (errors, level "error") and 105-112 (warnings, level "warning")
LegacyFindings(r, field, level, noun) ==
    IF r.thrown # NoMsg THEN r
    ELSE IF JsLength(field) # Undefined /\ JsLength(field) > 0
    THEN LET a == Write(r, "info", <<"">>)
             b == Write(a, level, <<"Found ", NumToString(JsLength(field)), " ", noun, "(s):">>)
         IN  [b EXCEPT !.log = @ \o [k \in 1..Len(field.items) |->
                                     Line(level, <<"  - ", LegacyFindingText(field.items[k])>>)]]
    ELSE r

\* lines 114-122
LegacyDecide(r, result, fow) ==
    IF r.thrown # NoMsg THEN r
    ELSE IF ~Truthy(result.valid)
    THEN SetFailed(r, <<"Validation failed with ",
                        NumToString(JsLength(result.errors)), " error(s)">>)
    ELSE IF fow /\ JsLength(result.warnings) > 0
         THEN SetFailed(r, <<"Validation passed but found ",
                             NumToString(JsLength(result.warnings)),
                             " warning(s) (", "fail-on-warnings", " enabled)">>)
         ELSE Write(Write(r, "info", <<"">>), "info", <<"Validation passed!">>)

\* lines 59-130: from the validator's exit to the end of run()
LegacyInterpret(r, out, errOut, code, fow) ==
    LET result == out.json
        a == LegacyBasicOutputs(r, result)
        b == LegacyScoring(a, result)
        c == LegacyFindings(b, result.errors, "error", "error")
        d == LegacyFindings(c, result.warnings, "warning", "warning")
    IN  CatchAll(IF out.parses THEN LegacyDecide(d, result, fow)
                 ELSE LegacyParseFailure(r, out))

(***************************************************************************)
(* run(), one action per stretch between two awaits.                       *)
(***************************************************************************)
\* core.getInput('agent-card')
agentCard == "./agent-card.json"

\* what the validator writes to stderr
Stderrs == {"", "warn: slow"}

\* the Error a subprocess that cannot be run rejects with
InstallErrors == { <<"The process 'npm' failed with exit code 1">> }

SpawnErrors == { <<"Unable to locate executable file: capiscio">> }

Variants == {"index", "legacy"}

\* the inputs forwarded to the validator: none set, or all of them
OptionValues ==
    { [strict |-> FALSE, testLive |-> FALSE, skipSignature |-> FALSE, timeout |-> ""],
      [strict |-> TRUE, testLive |-> TRUE, skipSignature |-> TRUE, timeout |-> "10000"] }

\* lines 32-38: the arguments of `capiscio`
BuildArgs(card, o) ==
    <<"validate", card, "--json">>
    \o (IF o.strict THEN <<"--strict">> ELSE <<>>)
    \o (IF o.testLive THEN <<"--test-live">> ELSE <<>>)
    \o (IF o.skipSignature THEN <<"--skip-signature">> ELSE <<>>)
    \o (IF o.timeout # "" THEN <<"--timeout", o.timeout>> ELSE <<>>)

\* args.join(' '), as pieces
RECURSIVE JoinSpaces(_)
JoinSpaces(a) ==
    IF Len(a) = 0 THEN <<>>
    ELSE IF Len(a) = 1 THEN a
    ELSE <<Head(a), " ">> \o JoinSpaces(Tail(a))

NoStdout == [text |-> "", parses |-> FALSE, json |-> NoPayload]

Init ==
    /\ variant \in Variants
    /\ failOnWarnings \in BOOLEAN
    /\ options \in OptionValues
    /\ args = <<>>
    /\ pc = "init"
    /\ installs = 0
    /\ validations = 0
    /\ installState = "idle"
    /\ validatorState = "idle"
    /\ caught = NoMsg
    /\ exitCode = Undefined
    /\ output = NoStdout
    /\ errorOutput = ""
    /\ outputs = NoOutputs
    /\ log = <<>>
    /\ failed = <<>>
    /\ escaped = FALSE

\* the effects so far, as the statements of run() take them
Effects == [outputs |-> outputs, log |-> log, failed |-> failed, thrown |-> NoMsg,
            caught |-> NoMsg]

\* run() ends with these effects
Finish(r) ==
    /\ outputs' = r.outputs
    /\ log' = r.log
    /\ failed' = r.failed
    /\ caught' = r.caught
    /\ escaped' = (r.thrown # NoMsg)
    /\ pc' = "done"

\* from the validator's exit to the end of run()
Interpret(v, r, out, errOut, code, fow) ==
    IF v = "index" THEN IndexInterpret(r, out, errOut, code, fow)
    ELSE LegacyInterpret(r, out, errOut, code, fow)

\* lines 17-30 (both files): the banner, then `npm install` is started
Start ==
    /\ pc = "init"
    /\ log' = log \o << Line("info", <<"Validating A2A agent card: ", agentCard>>),
                        Line("info", <<"Installing capiscio-cli@2.0.0...">>) >>
    /\ installs' = installs + 1
    /\ installState' = "running"
    /\ pc' = "installing"
    /\ UNCHANGED <<variant, failOnWarnings, options, args, validations,
                   validatorState, caught, exitCode, output, errorOutput, outputs,
                   failed, escaped>>

\* lines 30-57: the install has ended well; the validator is started
InstallSucceeds ==
    /\ pc = "installing"
    /\ installState' = "ok"
    /\ args' = BuildArgs(agentCard, options)
    /\ log' = Append(log, Line("info", <<"Running: capiscio ">> \o JoinSpaces(args')))
    /\ validations' = validations + 1
    /\ validatorState' = "running"
    /\ pc' = "validating"
    /\ UNCHANGED <<variant, failOnWarnings, options, installs, caught, exitCode,
                   output, errorOutput, outputs, failed, escaped>>

\* the install's failure is ignored and the validator is started
InstallFails_Ignored ==
    /\ pc = "installing"
    /\ installState' = "failed"
    /\ args' = BuildArgs(agentCard, options)
    /\ log' = Append(log, Line("info", <<"Running: capiscio ">> \o JoinSpaces(args')))
    /\ validations' = validations + 1
    /\ validatorState' = "running"
    /\ pc' = "validating"
    /\ UNCHANGED <<variant, failOnWarnings, options, installs, caught, exitCode,
                   output, errorOutput, outputs, failed, escaped>>

\* line 30 rejects: the outer catch
InstallFails ==
    /\ pc = "installing"
    /\ \E err \in InstallErrors :
          /\ installState' = "failed"
          /\ Finish(CatchAll(Throw(Effects, err)))
    /\ UNCHANGED <<variant, failOnWarnings, options, args, installs, validations,
                   validatorState, exitCode, output, errorOutput>>

\* line 57 rejects (the executable cannot be run): the outer catch
ValidatorSpawnFails ==
    /\ pc = "validating"
    /\ \E err \in SpawnErrors :
          /\ validatorState' = "failed"
          /\ Finish(CatchAll(Throw(Effects, err)))
    /\ UNCHANGED <<variant, failOnWarnings, options, args, installs, validations,
                   installState, exitCode, output, errorOutput>>

\* line 57 resolves with the exit code (ignoreReturnCode), the listeners have
\* accumulated stdout and stderr; run() goes on to its end
ValidatorExits ==
    /\ pc = "validating"
    /\ \E out \in Stdouts, errOut \in Stderrs, code \in ExitCodes :
          /\ validatorState' = "exited"
          /\ output' = out
          /\ errorOutput' = errOut
          /\ exitCode' = code
          /\ Finish(Interpret(variant, Effects, out, errOut, code, failOnWarnings))
    /\ UNCHANGED <<variant, failOnWarnings, options, args, installs, validations,
                   installState>>

Next ==
    \/ Start
    \/ InstallSucceeds
    \/ InstallFails
    \/ ValidatorSpawnFails
    \/ ValidatorExits

Spec == Init /\ [][Next]_vars

(***************************************************************************)
(* Vocabulary of the properties.                                           *)
(***************************************************************************)
Done == pc = "done"

\* the validator ran to its end and its stdout was a JSON document
Parsed == Done /\ validatorState = "exited" /\ output.parses

\* the validator ran to its end and its stdout was no JSON document
NotParsed == Done /\ validatorState = "exited" /\ ~output.parses

result == output.json

\* the job outcome: failure when core.setFailed was called
JobFailed == failed # <<>>

PassedLogged == \E k \in DOMAIN log : log[k].text = <<"Validation passed!">>

\* some piece of the text is the string s
Holds(text, s) == \E k \in DOMAIN text : text[k] = s

\* the pass/fail field resolved from `success` or, without it, legacy `valid`
NormalizedSuccess(p) ==
    IF p.success # "absent" THEN p.success = "true" ELSE p.valid = "true"

\* the entries of errors / warnings as a sequence: none when the property is
\* missing, one when it is a single value, the array's otherwise
Entries(field) == field.items

ErrorCount == Len(Entries(result.errors))

WarningCount == Len(Entries(result.warnings))

\* the lines of the log at `level` that report one finding each
FindingLines(level) ==
    LET RECURSIVE Pick(_)
        Pick(k) ==
            IF k > Len(log) THEN <<>>
            ELSE IF log[k].level = level /\ Len(log[k].text) = 2 /\ log[k].text[1] = "  - "
                 THEN <<log[k].text[2]>> \o Pick(k + 1)
                 ELSE Pick(k + 1)
    IN  Pick(1)

\* the message of a finding: its message, or the bare string itself
MessageOf(f) == IF f.kind = "string" THEN f.value ELSE f.message

\* the value of a dimension, from `total` (the newer key) or else `score`
ValueOf(dim) == IF dim.total # Undefined THEN dim.total ELSE dim.score

SemanticFailure(n) == <<"Validation failed with ", NumToString(n), " error(s)">>

(***************************************************************************)
(* The properties.                                                         *)
(***************************************************************************)
\* errors and warnings are arrays, as the validator's schema has them
ArraysReported == result.errors.kind = "array" /\ result.warnings.kind = "array"

\* C1: when stdout parses and the normalized pass/fail field is false
\* (errors and warnings being arrays), the job fails (setFailed is called, 'Validation passed!' is never logged),
\* whatever fail-on-warnings and the entries of errors and warnings are, and
\* the failure message holds the error count.
C1_UnsuccessfulResultFailsJob ==
    Parsed /\ ArraysReported /\ ~NormalizedSuccess(result)
        => /\ JobFailed
           /\ ~PassedLogged
           /\ Holds(failed[1], NumToString(ErrorCount))

\* the failure message of the fail-on-warnings policy
IsPolicyFailure(message, n) ==
    /\ Holds(message, NumToString(n))
    /\ Holds(message, "fail-on-warnings")
    /\ message # SemanticFailure(ErrorCount)
    /\ message[1] # "Validation failed with "

\* C2: when the parsed result has success true (errors and warnings being
\* arrays), the job fails exactly when
\* fail-on-warnings is set and there is a warning; the failure message then
\* holds the warning count and the name fail-on-warnings, and is not the
\* message of a semantic failure.
C2_WarningPolicy ==
    Parsed /\ ArraysReported /\ NormalizedSuccess(result)
        => /\ JobFailed <=> (failOnWarnings /\ WarningCount > 0)
           /\ JobFailed => IsPolicyFailure(failed[1], WarningCount)

\* C3 as stated: when stdout is no JSON document the job fails with the
\* message "Failed to parse validation output" (the exit code may follow),
\* nothing is published, an error line carries the raw stdout and stderr,
\* and no exception leaves run().
C3_ParseFailureAsStated ==
    NotParsed
        => /\ Len(failed) = 1
           /\ \/ failed[1] = <<"Failed to parse validation output">>
              \/ /\ failed[1][1] = "Failed to parse validation output"
                 /\ Holds(failed[1], NumToString(exitCode))
           /\ outputs = NoOutputs
           /\ \E k \in DOMAIN log : log[k].level = "error" /\ Holds(log[k].text, output.text)
           /\ \E k \in DOMAIN log : log[k].level = "error" /\ Holds(log[k].text, errorOutput)
           /\ ~escaped

\* C3, amended: when stdout is no JSON document the job fails with exactly
\* one message, nothing is published and no exception is thrown or leaves
\* run(); index.ts fails with "Validation failed with exit code <n>" after
\* three error lines (the parse failure, the raw stdout, the raw stderr);
\* the other variant fails with "Failed to parse validation output:
\* <stdout>" and logs no error line.
C3_ParseFailure ==
    NotParsed
        => /\ Len(failed) = 1
           /\ outputs = NoOutputs
           /\ ~escaped
           /\ caught = NoMsg
           /\ ~PassedLogged
           /\ variant = "index"
                => /\ failed[1] = <<"Validation failed with exit code ", NumToString(exitCode)>>
                   /\ SubSeq(log, Len(log) - 2, Len(log)) =
                          << Line("error", <<"Failed to parse validation output as JSON">>),
                             Line("error", <<"Raw output: ", output.text>>),
                             Line("error", <<"Error output: ", errorOutput>>) >>
           /\ variant = "legacy"
                => /\ failed[1] = <<"Failed to parse validation output", ": ", output.text>>
                   /\ \A k \in DOMAIN log : log[k].level # "error"

\* a parse failure of index.ts with a nonzero exit code and text on both streams
C3_Witness ==
    /\ NotParsed
    /\ variant = "index"
    /\ exitCode = 1
    /\ output.text = "not json"
    /\ errorOutput # ""
    /\ JobFailed

\* C4: the pass/fail indicator is accepted under either key: `valid` alone
\* counts as `success` would, and `success` alone as `valid` would (result
\* is 'passed' when it is true, and the job then succeeds unless
\* fail-on-warnings is set and there is a warning).
C4_EitherKeyAccepted ==
    Parsed /\ (result.success = "absent" \/ result.valid = "absent")
           /\ NormalizedSuccess(result)
        => /\ outputs["result"] = "passed"
           /\ JobFailed <=> (failOnWarnings /\ WarningCount > 0)

\* the score output of a dimension is the decimal string of its value
ScorePublished(name, dim) ==
    dim.present => outputs[name] = NumToString(ValueOf(dim))

\* C5: with a scoring object, the score output of each dimension that is
\* there is the decimal string of its value, read from `total` or `score`,
\* whichever is there, `total` (the newer name) when both are.
C5_ScoreFromEitherKey ==
    Parsed /\ result.scoringResult.present
        => /\ ScorePublished("compliance-score", result.scoringResult.compliance)
           /\ ScorePublished("trust-score", result.scoringResult.trust)
           /\ ScorePublished("availability-score", result.scoringResult.availability)

\* C6: with a scoring object, availability-score is the decimal string of
\* the availability value when that dimension is there and 'not-tested'
\* otherwise, and production-ready is 'true' or 'false', 'false' when
\* productionReady is missing.
C6_AvailabilityAndReadiness ==
    Parsed /\ result.scoringResult.present
        => /\ outputs["availability-score"] =
                  IF result.scoringResult.availability.present
                  THEN NumToString(ValueOf(result.scoringResult.availability))
                  ELSE "not-tested"
           /\ outputs["production-ready"] =
                  BoolToString(result.scoringResult.productionReady = "true")

\* C7: without a scoring object (errors and warnings being arrays) the three
\* score outputs are published as 'N/A' and production-ready as 'false';
\* none is left unset.
C7_NoScoringSentinels ==
    Parsed /\ ArraysReported /\ ~result.scoringResult.present
        => /\ outputs["compliance-score"] = "N/A"
           /\ outputs["trust-score"] = "N/A"
           /\ outputs["availability-score"] = "N/A"
           /\ outputs["production-ready"] = "false"

\* the effects of run() when the validator is started
BeforeExit == [NoEffects EXCEPT !.log = SubSeq(log, 1, 3)]

\* what run() would have done had the validator exited with `code`
WithExitCode(code) ==
    Interpret(variant, BeforeExit, output, errorOutput, code, failOnWarnings)

\* C8: the exit code is not authoritative: a run whose stdout parses has the
\* outputs, the log and the job outcome that it would have with any other
\* exit code; the exit code shows only in the failure message of a run
\* whose stdout does not parse (its outputs and log do not depend on it).
C8_ExitCodeNotAuthoritative ==
    \A code \in ExitCodes \ {exitCode} :
        LET other == WithExitCode(code)
        IN  /\ Parsed => /\ other.outputs = outputs
                         /\ other.log = log
                         /\ other.failed = failed
            /\ NotParsed => /\ other.outputs = outputs
                            /\ other.log = log

\* a run that passes although the validator exited with a nonzero code
C8_Witness ==
    /\ Parsed
    /\ exitCode = 1
    /\ ~JobFailed
    /\ PassedLogged
    /\ outputs["result"] = "passed"

\* the lines that report the entries of a field, as C9 has them
ExpectedFindingLines(field) ==
    [k \in 1..Len(Entries(field)) |-> MessageOf(Entries(field)[k])]

\* C9: errors and warnings are treated as sequences: a missing field counts
\* '0', logs no finding line and raises no failure of its own; a single
\* value that is no array counts '1' and logs one finding line; the count
\* outputs are the decimal string of the number of entries, and a bare
\* string is logged as its own message.
C9_FindingsAsSequences ==
    Parsed
        => /\ outputs["error-count"] = NumToString(ErrorCount)
           /\ outputs["warning-count"] = NumToString(WarningCount)
           /\ FindingLines("error") = ExpectedFindingLines(result.errors)
           /\ FindingLines("warning") = ExpectedFindingLines(result.warnings)
           /\ (result.errors.kind = "absent" \/ result.warnings.kind = "absent")
                  /\ ~result.scoringResult.present
                => caught = NoMsg

\* C10: the install ends before the validator is started and each is
\* started at most once; when the install fails the validator is never
\* started, and when the install fails or the validator cannot be run,
\* nothing is published and run() ends with the job failed with the
\* message of the error.
C10_InstallThenValidate ==
    /\ installs <= 1
    /\ validations <= 1
    /\ validations >= 1 => installs = 1 /\ installState = "ok"
    /\ validatorState # "idle" => validations = 1
    /\ validations = 0 => args = <<>>
    /\ installState = "failed"
          => /\ validations = 0
             /\ validatorState = "idle"
             /\ Done
             /\ outputs = NoOutputs
             /\ caught \in InstallErrors
             /\ failed = <<caught>>
             /\ ~escaped
    /\ validatorState = "failed"
          => /\ Done
             /\ exitCode = Undefined
             /\ outputs = NoOutputs
             /\ caught \in SpawnErrors
             /\ failed = <<caught>>
             /\ ~escaped

\* the install has failed and run() has ended
C10_Witness ==
    /\ installState = "failed"
    /\ Done
    /\ installs = 1
    /\ JobFailed

====
